---------------------------- MODULE Spec2Model ----------------------------
(***************************************************************************)
(* BlackRoad ticket system (src/src/ticket_system.py): the ticket table,   *)
(* the comments, the SLA history and the sqlite3 connection that writes    *)
(* them.  One action per public method of TicketSystem.  The connection    *)
(* sees its own uncommitted writes (tickets, comments, sla_history); the   *)
(* database file holds what was committed (db).                            *)
(***************************************************************************)
EXTENDS Integers, Sequences, FiniteSets, TLC

\* ------------------------------------------------------------------ bounds
\* Wall-clock hour at which the system is constructed.
StartTime == 100
\* Hours the wall clock may advance during a run.
MaxTicks == 1
\* Rows the sla_history table may hold.
MaxEvents == 3
\* Rows the comments table may hold.
MaxComments == 1

MaxClock == StartTime + MaxTicks

\* ------------------------------------------------------------ input values
\* Ticket ids (uuid4 strings in the code): the id the store issues, and an
\* id no ticket has under Spec.  Callers pass either.
TicketIds == {1}
UnknownIds == {2}
Ids == TicketIds \cup UnknownIds
\* Python's None (a NULL column).
None == "<None>"
Priorities == 1..4
Assignees == {"agent1", "agent2"}
\* author of a Comment: a name, or None, which comments.author NOT NULL rejects.
Authors == {"system", None}
Reasons == {"", "why"}
\* <<sla_hours, hours created_at lies before utcnow()>> of a new Ticket:
\* the dataclass defaults, and a one-hour SLA dated an hour back.
TicketTimings == {<<72, 0>>, <<1, 1>>}
\* Hours before utcnow() a caller may date a new Comment.
Backdates == {0, 1}
\* <<author, note>> arguments of update_status: the defaults, a note, and a
\* note with author None.
NoteArgs == {<<"system", "">>, <<"system", "note">>, <<None, "note">>}

\* --------------------------------------------------------- module constants
Statuses == {"open", "in_progress", "review", "on_hold", "resolved",
             "closed", "cancelled"}

\* Mutant: the table with an edge open -> resolved added.
STATUS_FLOW_OpenToResolved ==
    [s \in Statuses |->
        CASE s = "open"        -> <<"in_progress", "on_hold", "cancelled", "resolved">>
          [] s = "in_progress" -> <<"review", "on_hold", "resolved">>
          [] s = "review"      -> <<"resolved", "in_progress">>
          [] s = "on_hold"     -> <<"open", "cancelled">>
          [] s = "resolved"    -> <<"closed", "open">>
          [] s = "closed"      -> <<>>
          [] s = "cancelled"   -> <<>>]

\* Mutant: the table with no edge out of on_hold.
STATUS_FLOW_OnHoldStuck ==
    [s \in Statuses |->
        CASE s = "open"        -> <<"in_progress", "on_hold", "cancelled">>
          [] s = "in_progress" -> <<"review", "on_hold", "resolved">>
          [] s = "review"      -> <<"resolved", "in_progress">>
          [] s = "on_hold"     -> <<>>
          [] s = "resolved"    -> <<"closed", "open">>
          [] s = "closed"      -> <<>>
          [] s = "cancelled"   -> <<>>]

STATUS_FLOW ==
    [s \in Statuses |->
        CASE s = "open"        -> <<"in_progress", "on_hold", "cancelled">>
          [] s = "in_progress" -> <<"review", "on_hold", "resolved">>
          [] s = "review"      -> <<"resolved", "in_progress">>
          [] s = "on_hold"     -> <<"open", "cancelled">>
          [] s = "resolved"    -> <<"closed", "open">>
          [] s = "closed"      -> <<>>
          [] s = "cancelled"   -> <<>>]

DEFAULT_SLA ==
    [p \in Priorities |->
        CASE p = 1 -> 4 [] p = 2 -> 24 [] p = 3 -> 72 [] p = 4 -> 168]

\* x in list
InList(x, list) == \E i \in 1..Len(list) : list[i] = x

Max(a, b) == IF a >= b THEN a ELSE b

\* ------------------------------------------------------------- timestamps
\* datetime.isoformat(): fixed-width, zero-padded text (here four digits of
\* the hour count); fromisoformat() parses it back.  NULL is the empty text.
NULL == <<>>
IsoFormat(t) == <<(t \div 1000) % 10, (t \div 100) % 10, (t \div 10) % 10, t % 10>>
FromIsoFormat(s) == s[1] * 1000 + s[2] * 100 + s[3] * 10 + s[4]

\* ------------------------------------------------------------------- state
VARIABLES
    tickets,      \* tickets table as the connection sees it: id -> row or NoRow
    comments,     \* comments table as the connection sees it, in insertion order
    sla_history,  \* sla_history table as the connection sees it, in insertion order
    db,           \* the committed database: [tickets, comments, sla_history]
    clock,        \* datetime.utcnow(), in hours (one reading per call)
    conns         \* per TicketSystem on the database: the update_status call
                  \* it is in the middle of, if any

vars == <<tickets, comments, sla_history, db, clock, conns>>

\* TicketSystem objects opened on the same database file.
Conns == {"A", "B"}
\* A TicketSystem that is not inside a call.
Idle == [pc |-> "idle"]

NoRow == [absent |-> TRUE]
\* get_ticket's None.
NoTicket == [absent |-> TRUE]
\* An Optional[datetime] that is None.
NoTime == -1
NoVal == [kind |-> "none"]

Exists(tbl, id) == tbl[id] # NoRow

\* The three tables as the connection sees them (its uncommitted writes
\* included), as one value.
View == [tickets |-> tickets, comments |-> comments, sla_history |-> sla_history]

\* How a call ends: the view it leaves, whether conn.commit() ran after the
\* last write, the value returned or exception raised (ret) and what the
\* exception's message names (val).
Outcome(view, commit, ret, val) ==
    [view |-> view, commit |-> commit, ret |-> ret, val |-> val]

\* The committed database after a call that ended as o.
DbAfter(o) == IF o.commit THEN o.view ELSE db

\* -------------------------------------------------------------- the Ticket
\* _row_to_ticket: the dataclass built from a row, timestamps parsed.
RowToTicket(row) ==
    [priority    |-> row.priority,
     status      |-> row.status,
     assignee    |-> row.assignee,
     sla_hours   |-> row.sla_hours,
     created_at  |-> FromIsoFormat(row.created_at),
     updated_at  |-> FromIsoFormat(row.updated_at),
     resolved_at |-> IF row.resolved_at # NULL
                     THEN FromIsoFormat(row.resolved_at) ELSE NoTime]

get_ticket(v, ticket_id) ==
    IF Exists(v.tickets, ticket_id) THEN RowToTicket(v.tickets[ticket_id])
    ELSE NoTicket

sla_deadline(t) == t.created_at + t.sla_hours

\* Mutant: a finished ticket judged by updated_at even when resolved_at is set.
is_breached_ByUpdatedAt(t, now) ==
    IF t.status \in {"resolved", "closed", "cancelled"}
    THEN t.updated_at > sla_deadline(t)
    ELSE now > sla_deadline(t)

\* Mutant: every ticket judged by the current time.
is_breached_ByClock(t, now) == now > sla_deadline(t)

\* Ticket.is_breached(), utcnow() returning now.
is_breached(t, now) ==
    IF t.status \in {"resolved", "closed", "cancelled"}
    THEN LET ref == IF t.resolved_at # NoTime THEN t.resolved_at ELSE t.updated_at
         IN  ref > sla_deadline(t)
    ELSE now > sla_deadline(t)

\* The row _log_sla_event inserts.
SlaEvent(ticket_id, event, now, sla_hours, was_breached) ==
    [ticket_id |-> ticket_id, event |-> event, occurred_at |-> IsoFormat(now),
     sla_hours |-> sla_hours, was_breached |-> IF was_breached THEN 1 ELSE 0]

\* f"status→{status}"
StatusEvent(status) == "status→" \o status

\* Mutant: the new event put in front of the history.
log_sla_event_InFront(v, ticket_id, event, now, sla_hours, was_breached) ==
    [v EXCEPT !.sla_history =
        <<SlaEvent(ticket_id, event, now, sla_hours, was_breached)>> \o @]

\* _log_sla_event on view v.
log_sla_event(v, ticket_id, event, now, sla_hours, was_breached) ==
    [v EXCEPT !.sla_history =
        Append(@, SlaEvent(ticket_id, event, now, sla_hours, was_breached))]

\* ---------------------------------------------------------------- comments
Comment(ticket_id, author, body, is_internal, created_at) ==
    [ticket_id |-> ticket_id, author |-> author, body |-> body,
     is_internal |-> is_internal, created_at |-> created_at]

\* The INSERT of add_comment fails on a NULL author (comments.author NOT NULL).
CommentInsertable(comment) == comment.author # None

\* add_comment's two statements on view v: INSERT INTO comments, then
\* UPDATE tickets SET updated_at (no row matches an unknown ticket_id).
AddCommentWrites(v, comment) ==
    [v EXCEPT
        !.comments = Append(@,
            [ticket_id |-> comment.ticket_id, author |-> comment.author,
             body |-> comment.body,
             is_internal |-> IF comment.is_internal THEN 1 ELSE 0,
             created_at |-> IsoFormat(comment.created_at)]),
        !.tickets = [id \in Ids |->
            IF id = comment.ticket_id /\ Exists(@, id)
            THEN [@[id] EXCEPT !.updated_at = IsoFormat(comment.created_at)]
            ELSE @[id]]]

\* add_comment(comment) on view v: the INSERT raises before anything is
\* written, or both statements run and are committed.
add_comment(v, comment) ==
    IF CommentInsertable(comment)
    THEN Outcome(AddCommentWrites(v, comment), TRUE, "Comment", NoVal)
    ELSE Outcome(v, FALSE, "IntegrityError", NoVal)

\* ------------------------------------------------------------ create_ticket
\* The row create_ticket inserts for a Ticket built with the defaults
\* (status open, no assignee, no resolved_at, updated_at = utcnow()).
NewRow(priority, sla_hours, created_at, updated_at) ==
    [priority |-> priority, status |-> "open", assignee |-> None,
     sla_hours |-> sla_hours, created_at |-> IsoFormat(created_at),
     updated_at |-> IsoFormat(updated_at), resolved_at |-> NULL]

create_ticket(ticket_id, priority, sla_hours, created_at, now) ==
    IF Exists(tickets, ticket_id)
    THEN \* tickets.id is the PRIMARY KEY: the INSERT raises
         Outcome(View, FALSE, "IntegrityError", NoVal)
    ELSE LET row == NewRow(priority, sla_hours, created_at, now)
             v1  == [View EXCEPT !.tickets[ticket_id] = row]
             v2  == log_sla_event(v1, ticket_id, "created", now, sla_hours, FALSE)
         IN  Outcome(v2, TRUE, "Ticket", NoVal)

\* ------------------------------------------------------------ assign_ticket
\* Mutant: WHERE id=? without AND status='open'.
AssignMatchesAnyStatus(row) == row # NoRow

\* The WHERE clause of assign_ticket's UPDATE.
AssignMatches(row) == row # NoRow /\ row.status = "open"

\* Mutant: return True instead of cur.rowcount > 0.
assign_ticket_ReturnsTrue(ticket_id, assignee, now) ==
    LET hit == AssignMatches(tickets[ticket_id])
        v1  == IF hit
               THEN [View EXCEPT !.tickets[ticket_id] =
                        [@ EXCEPT !.assignee = assignee,
                                  !.updated_at = IsoFormat(now),
                                  !.status = "in_progress"]]
               ELSE View
    IN  Outcome(v1, TRUE, "True", NoVal)

assign_ticket(ticket_id, assignee, now) ==
    LET hit == AssignMatches(tickets[ticket_id])
        v1  == IF hit
               THEN [View EXCEPT !.tickets[ticket_id] =
                        [@ EXCEPT !.assignee = assignee,
                                  !.updated_at = IsoFormat(now),
                                  !.status = "in_progress"]]
               ELSE View
    IN  \* commit() runs whether or not a row matched; rowcount > 0 is returned
        Outcome(v1, TRUE, IF hit THEN "True" ELSE "False", NoVal)

\* ------------------------------------------------------------ update_status
\* Mutant: resolved_at stamped for every status is_breached treats as final.
ResolvedAtForFinal(status, now) ==
    IF status \in {"resolved", "closed", "cancelled"} THEN IsoFormat(now) ELSE NULL

\* resolved_at as update_status computes it for the new status.
ResolvedAtFor(status, now) ==
    IF status \in {"resolved", "closed"} THEN IsoFormat(now) ELSE NULL

\* Mutant: is_breached() of the ticket as updated.
LoggedBreachAfter(before, after, now) == is_breached(after, now)

\* was_breached as update_status passes it to _log_sla_event: is_breached()
\* of the Ticket read before the UPDATE (after is the ticket as updated).
LoggedBreach(before, after, now) == is_breached(before, now)

InvalidTransition(current, requested, allowed) ==
    [kind |-> "Invalid transition", current |-> current,
     requested |-> requested, allowed |-> allowed]

\* Mutant: the transition check dropped.
TransitionAllowedAlways(current, status) == TRUE

\* status in allowed
TransitionAllowed(current, status) == InList(status, STATUS_FLOW[current])

update_status(ticket_id, status, author, note, now) ==
    LET ticket == get_ticket(View, ticket_id)
    IN  IF ticket = NoTicket
        THEN Outcome(View, FALSE, "False", NoVal)
        ELSE IF ~TransitionAllowed(ticket.status, status)
        THEN Outcome(View, FALSE, "ValueError",
                     InvalidTransition(ticket.status, status,
                                       STATUS_FLOW[ticket.status]))
        ELSE LET v1 == [View EXCEPT !.tickets[ticket_id] =
                          [@ EXCEPT !.status = status,
                                    !.updated_at = IsoFormat(now),
                                    !.resolved_at = ResolvedAtFor(status, now)]]
                 v2 == log_sla_event(v1, ticket_id, StatusEvent(status), now,
                          ticket.sla_hours,
                          LoggedBreach(ticket, get_ticket(v1, ticket_id), now))
                 added == add_comment(v2, Comment(ticket_id, author, note,
                                                  TRUE, now))
             IN  IF note = ""
                 THEN Outcome(v2, TRUE, "True", NoVal)
                 ELSE IF added.ret = "IntegrityError"
                 THEN \* add_comment raised: the UPDATE and the SLA event stay
                      \* in the open transaction, nothing rolls them back
                      Outcome(v2, FALSE, "IntegrityError", NoVal)
                 ELSE Outcome(added.view, TRUE, "True", NoVal)

\* ----------------------------------------------------------------- escalate
\* Mutant: the floor of the new priority is 2.
NewPrio_FloorTwo(priority) == Max(2, priority - 1)

NewPrio(priority) == Max(1, priority - 1)

\* f"Escalated: {reason}"
EscalatedBody(reason) == "Escalated: " \o reason

\* Mutant: escalation refused on a resolved, closed or cancelled ticket.
escalate_OpenOnly(ticket_id, reason, now) ==
    IF ~Exists(tickets, ticket_id)
          \/ tickets[ticket_id].status \in {"resolved", "closed", "cancelled"}
    THEN Outcome(View, FALSE, "False", NoVal)
    ELSE LET new_prio == NewPrio(tickets[ticket_id].priority)
             new_sla  == DEFAULT_SLA[new_prio]
             v1 == [View EXCEPT !.tickets[ticket_id] =
                       [@ EXCEPT !.priority = new_prio,
                                 !.sla_hours = new_sla,
                                 !.updated_at = IsoFormat(now)]]
             v2 == log_sla_event(v1, ticket_id, "escalated", now, new_sla, FALSE)
             added == add_comment(v2, Comment(ticket_id, "system",
                                              EscalatedBody(reason), TRUE, now))
         IN  IF reason = ""
             THEN Outcome(v2, TRUE, "True", NoVal)
             ELSE Outcome(added.view, TRUE, "True", NoVal)

\* Mutant: the SLA event logged before the row is looked up.
escalate_LogsFirst(ticket_id, reason, now) ==
    LET v0 == log_sla_event(View, ticket_id, "escalated", now, 0, FALSE)
    IN  IF ~Exists(tickets, ticket_id)
        THEN Outcome(v0, FALSE, "False", NoVal)
        ELSE LET new_prio == NewPrio(tickets[ticket_id].priority)
                 new_sla  == DEFAULT_SLA[new_prio]
                 v1 == [v0 EXCEPT !.tickets[ticket_id] =
                           [@ EXCEPT !.priority = new_prio,
                                     !.sla_hours = new_sla,
                                     !.updated_at = IsoFormat(now)]]
                 added == add_comment(v1, Comment(ticket_id, "system",
                                                  EscalatedBody(reason), TRUE, now))
             IN  IF reason = ""
                 THEN Outcome(v1, TRUE, "True", NoVal)
                 ELSE Outcome(added.view, TRUE, "True", NoVal)

escalate(ticket_id, reason, now) ==
    IF ~Exists(tickets, ticket_id)
    THEN Outcome(View, FALSE, "False", NoVal)
    ELSE LET new_prio == NewPrio(tickets[ticket_id].priority)
             new_sla  == DEFAULT_SLA[new_prio]
             v1 == [View EXCEPT !.tickets[ticket_id] =
                       [@ EXCEPT !.priority = new_prio,
                                 !.sla_hours = new_sla,
                                 !.updated_at = IsoFormat(now)]]
             v2 == log_sla_event(v1, ticket_id, "escalated", now, new_sla, FALSE)
             added == add_comment(v2, Comment(ticket_id, "system",
                                              EscalatedBody(reason), TRUE, now))
         IN  IF reason = ""
             THEN Outcome(v2, TRUE, "True", NoVal)
             ELSE Outcome(added.view, TRUE, "True", NoVal)

\* --------------------------------------------------------- check_sla_breach
NotFound(ticket_id) == [kind |-> "not found", ticket_id |-> ticket_id]

check_sla_breach(ticket_id, now) ==
    LET ticket == get_ticket(View, ticket_id)
    IN  IF ticket = NoTicket
        THEN Outcome(View, FALSE, "ValueError", NotFound(ticket_id))
        ELSE Outcome(View, FALSE, "dict",
                [kind |-> "sla",
                 priority |-> ticket.priority,
                 sla_hours |-> ticket.sla_hours,
                 created_at |-> IsoFormat(ticket.created_at),
                 sla_deadline |-> IsoFormat(sla_deadline(ticket)),
                 is_breached |-> is_breached(ticket, now),
                 hours_remaining |-> sla_deadline(ticket) - now])

\* ------------------------------------------------------- read-only queries
\* SQL's >= on two TEXT values: left to right, character by character.
TextGeq(a, b) ==
    \/ a = b
    \/ \E i \in 1..Len(a) :
          /\ i <= Len(b)
          /\ \A j \in 1..(i - 1) : a[j] = b[j]
          /\ a[i] > b[i]
    \/ Len(a) > Len(b) /\ \A j \in 1..Len(b) : a[j] = b[j]

\* The elements of S as a sequence, x before y when <<x, y>> is in before.
RECURSIVE SortedSeq(_, _)
SortedSeq(S, before) ==
    IF S = {} THEN <<>>
    ELSE LET first == CHOOSE x \in S : \A y \in S \ {x} : <<x, y>> \in before
         IN  <<first>> \o SortedSeq(S \ {first}, before)

\* A caller's argument counts as given when Python finds it truthy:
\* None, the empty string and 0 do not.
NoPriority == -1
Truthy(arg) == arg \notin {None, ""}
TruthyInt(arg) == arg \notin {NoPriority, 0}

\* The WHERE clause get_queue builds, on one row.
QueueWhere(row, assignee, status, priority) ==
    /\ Truthy(assignee) => row.assignee = assignee
    /\ IF Truthy(status) THEN row.status = status
       ELSE ~Truthy(assignee) =>
                row.status \notin {"resolved", "closed", "cancelled"}
    /\ TruthyInt(priority) => row.priority = priority

\* ORDER BY priority ASC, created_at ASC (rows equal in both: by id).
QueueBefore(v, x, y) ==
    LET a == v.tickets[x]
        b == v.tickets[y]
    IN  \/ a.priority < b.priority
        \/ a.priority = b.priority /\ a.created_at # b.created_at
              /\ TextGeq(b.created_at, a.created_at)
        \/ a.priority = b.priority /\ a.created_at = b.created_at /\ x < y

\* get_queue: the ids of the Tickets returned, in the order returned.
get_queue(v, assignee, status, priority) ==
    LET hits == {id \in Ids : /\ Exists(v.tickets, id)
                              /\ QueueWhere(v.tickets[id], assignee, status, priority)}
        before == {xy \in hits \X hits : QueueBefore(v, xy[1], xy[2])}
    IN  Outcome(v, FALSE, "list", SortedSeq(hits, before))

\* One entry of get_breached_tickets' result.
BreachedEntry(id, t, now) ==
    [ticket_id |-> id, priority |-> t.priority, assignee |-> t.assignee,
     overdue_hours |-> now - sla_deadline(t)]

\* Mutant: the entries left in the order the table was scanned.
SortOverdueDesc_Unsorted(list) == list

\* list.sort(key=overdue_hours, reverse=True) builds its result by taking the
\* entries in order and placing each after those whose key is not smaller.
RECURSIVE SortOverdueDesc(_)
SortOverdueDesc(list) ==
    IF list = <<>> THEN <<>>
    ELSE LET n    == Len(list)
             init == SortOverdueDesc(SubSeq(list, 1, n - 1))
             x    == list[n]
             k    == Cardinality({i \in 1..Len(init) :
                                    init[i].overdue_hours >= x.overdue_hours})
         IN  SubSeq(init, 1, k) \o <<x>> \o SubSeq(init, k + 1, Len(init))

\* The rows get_breached_tickets selects, in the order the table is scanned.
OpenRows(v) ==
    SortedSeq({id \in Ids : /\ Exists(v.tickets, id)
                            /\ v.tickets[id].status \notin
                                  {"resolved", "closed", "cancelled"}},
              {xy \in Ids \X Ids : xy[1] < xy[2]})

get_breached_tickets(v, now) ==
    LET rows == OpenRows(v)
        hit(i) == is_breached(RowToTicket(v.tickets[rows[i]]), now)
        kept == SelectSeq([i \in 1..Len(rows) |-> i], hit)
        result == [j \in 1..Len(kept) |->
                      BreachedEntry(rows[kept[j]],
                                    RowToTicket(v.tickets[rows[kept[j]]]), now)]
    IN  Outcome(v, FALSE, "list", SortOverdueDesc(result))

\* ---------------------------------------------------------- generate_report
PRIORITY_LABELS ==
    [p \in Priorities |->
        CASE p = 1 -> "critical" [] p = 2 -> "high" [] p = 3 -> "medium"
          [] p = 4 -> "low"]

\* round(n / d): to the nearest integer, a half to the even one.
RoundDiv(n, d) ==
    LET q == n \div d
        r == n % d
    IN  IF 2 * r < d THEN q
        ELSE IF 2 * r > d THEN q + 1
        ELSE IF q % 2 = 0 THEN q ELSE q + 1

RECURSIVE SumOver(_, _)
SumOver(S, f) ==
    IF S = {} THEN 0
    ELSE LET x == CHOOSE x \in S : TRUE IN f[x] + SumOver(S \ {x}, f)

\* Mutant: a NULL column passes the comparison.
InWindowOrNull(text, since) == text = NULL \/ TextGeq(text, since)

\* column >= ? in a WHERE clause: never true of a NULL column.
InWindow(text, since) == text # NULL /\ TextGeq(text, since)

\* Mutant: LIKE '%'.
IsAnyEvent(event) == TRUE

\* event LIKE 'status→%' (the events logged are 'created', 'escalated' and
\* 'status→' followed by a status).
IsStatusEvent(event) == \E s \in Statuses : event = StatusEvent(s)

\* r["assignee"] or "unassigned"
AssigneeKey(assignee) == IF Truthy(assignee) THEN assignee ELSE "unassigned"

\* generate_report(days) at time now.  Hours and percentages rounded to one
\* decimal are given in tenths; avg_resolution_hours is <<>> for None.
generate_report(v, days, now) ==
    LET since    == IsoFormat(now - 24 * days)
        rowsIn   == {id \in Ids : Exists(v.tickets, id)}
        opened   == {id \in rowsIn : InWindow(v.tickets[id].created_at, since)}
        resolved == {id \in rowsIn : InWindow(v.tickets[id].resolved_at, since)}
        done     == {id \in resolved :
                        v.tickets[id].status \in {"resolved", "closed"}}
        res_times == [id \in done |->
                        FromIsoFormat(v.tickets[id].resolved_at)
                            - FromIsoFormat(v.tickets[id].created_at)]
        events   == {i \in 1..Len(v.sla_history) :
                        InWindow(v.sla_history[i].occurred_at, since)}
        all_resolved == Cardinality({i \in events :
                                       IsStatusEvent(v.sla_history[i].event)})
        breached == Cardinality({i \in events :
                                   v.sla_history[i].was_breached = 1})
        stillOpen == {id \in rowsIn : v.tickets[id].status \notin
                                         {"resolved", "closed", "cancelled"}}
        \* GROUP BY assignee: one row per assignee value, NULL and '' apart
        groups   == {v.tickets[id].assignee : id \in stillOpen}
        cnt      == [g \in groups |->
                        Cardinality({id \in stillOpen : v.tickets[id].assignee = g})]
        \* the dict keeps, of the rows that get the same key, the last in
        \* ORDER BY cnt DESC, which is one with the least count
        LastCount(gs) == CHOOSE c \in {cnt[g] : g \in gs} :
                            \A g \in gs : cnt[g] >= c
    IN  Outcome(v, FALSE, "dict",
           [kind |-> "report",
            report_days |-> days,
            generated_at |-> IsoFormat(now),
            total_opened |-> Cardinality(opened),
            total_resolved |-> Cardinality(resolved),
            avg_resolution_hours |->
                IF done # {}
                THEN <<RoundDiv(10 * SumOver(done, res_times), Cardinality(done))>>
                ELSE <<>>,
            sla_breach_rate_pct |->
                IF all_resolved # 0
                THEN RoundDiv(breached * 1000, all_resolved) ELSE 0,
            by_priority |->
                [l \in {PRIORITY_LABELS[v.tickets[id].priority] : id \in opened} |->
                    [opened |-> Cardinality({id \in opened :
                                    PRIORITY_LABELS[v.tickets[id].priority] = l}),
                     resolved |-> Cardinality({id \in opened :
                                    /\ PRIORITY_LABELS[v.tickets[id].priority] = l
                                    /\ v.tickets[id].status \in
                                          {"resolved", "closed"}})]],
            open_by_assignee |->
                [a \in {AssigneeKey(g) : g \in groups} |->
                    LastCount({g \in groups : AssigneeKey(g) = a})],
            currently_open |-> Cardinality(stillOpen)])

\* ------------------------------------------------------------ auto_priority
\* A text is the sequence of its characters.
UpperCase == <<"A", "B", "C", "D", "E", "F", "G", "H", "I", "J", "K", "L", "M",
               "N", "O", "P", "Q", "R", "S", "T", "U", "V", "W", "X", "Y", "Z">>
LowerCase == <<"a", "b", "c", "d", "e", "f", "g", "h", "i", "j", "k", "l", "m",
               "n", "o", "p", "q", "r", "s", "t", "u", "v", "w", "x", "y", "z">>

\* str.lower()
Lower(text) ==
    [i \in 1..Len(text) |->
        IF \E k \in 1..Len(UpperCase) : UpperCase[k] = text[i]
        THEN LowerCase[CHOOSE k \in 1..Len(UpperCase) : UpperCase[k] = text[i]]
        ELSE text[i]]

\* kw in text
Occurs(kw, text) ==
    \E at \in 0..(Len(text) - Len(kw)) :
        \A j \in 1..Len(kw) : text[at + j] = kw[j]

PRIORITY_KEYWORDS ==
    [p \in Priorities |->
        CASE p = 1 -> <<<<"d", "o", "w", "n">>,
                  <<"o", "u", "t", "a", "g", "e">>,
                  <<"c", "r", "a", "s", "h">>,
                  <<"c", "r", "i", "t", "i", "c", "a", "l">>,
                  <<"e", "m", "e", "r", "g", "e", "n", "c", "y">>,
                  <<"p", "r", "o", "d", "u", "c", "t", "i", "o", "n">>,
                  <<"b", "r", "e", "a", "c", "h">>>>
          [] p = 2 -> <<<<"b", "r", "o", "k", "e", "n">>,
                  <<"e", "r", "r", "o", "r">>,
                  <<"f", "a", "i", "l">>,
                  <<"u", "r", "g", "e", "n", "t">>,
                  <<"s", "e", "c", "u", "r", "i", "t", "y">>,
                  <<"d", "a", "t", "a", " ", "l", "o", "s", "s">>,
                  <<"h", "i", "g", "h">>>>
          [] p = 3 -> <<<<"s", "l", "o", "w">>,
                  <<"d", "e", "g", "r", "a", "d", "e", "d">>,
                  <<"i", "n", "c", "o", "r", "r", "e", "c", "t">>,
                  <<"i", "s", "s", "u", "e">>,
                  <<"b", "u", "g">>,
                  <<"m", "e", "d", "i", "u", "m">>>>
          [] p = 4 -> <<<<"f", "e", "a", "t", "u", "r", "e">>,
                  <<"e", "n", "h", "a", "n", "c", "e", "m", "e", "n", "t">>,
                  <<"r", "e", "q", "u", "e", "s", "t">>,
                  <<"q", "u", "e", "s", "t", "i", "o", "n">>,
                  <<"l", "o", "w">>>>]

\* Mutant: the level with the most keyword hits wins (the lowest on a tie).
BestPriorityByScore(scores) ==
    LET hit == {p \in Priorities : scores[p] > 0}
    IN  IF hit # {}
        THEN CHOOSE p \in hit :
                \A q \in hit : scores[p] > scores[q]
                                  \/ (scores[p] = scores[q] /\ p <= q)
        ELSE 3

\* min(p for p, s in scores.items() if s > 0), or 3 when nothing scored.
BestPriority(scores) ==
    LET hit == {p \in Priorities : scores[p] > 0}
    IN  IF hit # {}
        THEN CHOOSE p \in hit : \A q \in hit : p <= q
        ELSE 3

auto_priority(description) ==
    LET text   == Lower(description)
        scores == [p \in Priorities |->
                     Cardinality({k \in 1..Len(PRIORITY_KEYWORDS[p]) :
                                    Occurs(PRIORITY_KEYWORDS[p][k], text)})]
        best_priority == BestPriority(scores)
    IN  Outcome(View, FALSE, "tuple",
                [kind |-> "priority", priority |-> best_priority,
                 sla_hours |-> DEFAULT_SLA[best_priority]])

\* ------------------------------------------------------------------- Init
Init ==
    /\ tickets = [id \in Ids |-> NoRow]
    /\ comments = <<>>
    /\ sla_history = <<>>
    /\ db = [tickets |-> [id \in Ids |-> NoRow], comments |-> <<>>,
             sla_history |-> <<>>]
    /\ clock = StartTime
    /\ conns = [c \in Conns |-> Idle]

\* ---------------------------------------------------------------- actions
\* The tables stay within the bounds of the model.
Bounded(o) ==
    /\ Len(o.view.sla_history) <= MaxEvents
    /\ Len(o.view.comments) <= MaxComments

\* A call that ends as o.
Call(o) ==
    /\ Bounded(o)
    /\ tickets' = o.view.tickets
    /\ comments' = o.view.comments
    /\ sla_history' = o.view.sla_history
    /\ db' = DbAfter(o)
    /\ UNCHANGED <<clock, conns>>

\* Time passes between calls.
Tick ==
    /\ clock < MaxClock
    /\ clock' = clock + 1
    /\ UNCHANGED <<tickets, comments, sla_history, db, conns>>

CreateTicket ==
    \E id \in TicketIds, p \in Priorities, t \in TicketTimings :
        Call(create_ticket(id, p, t[1], clock - t[2], clock))

AssignTicket ==
    \E id \in Ids, a \in Assignees : Call(assign_ticket(id, a, clock))

UpdateStatus ==
    \E id \in Ids, s \in Statuses, an \in NoteArgs :
        Call(update_status(id, s, an[1], an[2], clock))

Escalate ==
    \E id \in Ids, reason \in Reasons : Call(escalate(id, reason, clock))

AddComment ==
    \E id \in Ids, a \in Authors, b \in Backdates :
        Call(add_comment(View, Comment(id, a, "hello", FALSE, clock - b)))

CheckSlaBreach ==
    \E id \in Ids : Call(check_sla_breach(id, clock))

\* days of generate_report: the last 24 hours, and nothing but this hour.
ReportDays == {0, 1}

GenerateReport == \E days \in ReportDays : Call(generate_report(View, days, clock))

Next ==
    \/ Tick
    \/ CreateTicket
    \/ AssignTicket
    \/ UpdateStatus
    \/ Escalate
    \/ AddComment
    \/ CheckSlaBreach
    \/ GenerateReport

Spec == Init /\ [][Next]_vars
\* ------------------------------------------- a two-ticket store and its queries
\* Both ids of Ids hold a ticket here; the store is filled and changed through
\* create_ticket, assign_ticket and update_status with their default
\* arguments, and read through the queries.
QueryPriorities == {2, 3}
\* <<sla_hours, hours created_at lies before utcnow()>>
QueryTimings == {<<72, 0>>, <<1, 1>>, <<1, 2>>}
\* Arguments of get_queue: None (omitted), falsy values, and values in use.
QueueAssignees == {None, "", "agent1"}
QueueStatuses == {None, "", "in_progress", "resolved"}
QueuePriorities == {NoPriority, 0, 2}
Descriptions ==
    {<<"S", "e", "r", "v", "e", "r", " ", "i", "s", " ", "D", "O", "W", "N">>,
     <<"s", "l", "o", "w", " ", "b", "u", "g", " ", "e", "r", "r", "o", "r">>,
     <<"n", "o", "t", "h", "i", "n", "g", " ", "h", "e", "r", "e">>,
     <<"N", "e", "w", " ", "F", "e", "a", "t", "u", "r", "e">>,
     <<"d", "o", "w", " ", "n">>,
     <<"s", "l", "o", "w", "d", "o", "w", "n">>}

StoreCreate ==
    \E id \in Ids, p \in QueryPriorities, t \in QueryTimings :
        Call(create_ticket(id, p, t[1], clock - t[2], clock))

StoreAssign ==
    \E id \in Ids, a \in Assignees : Call(assign_ticket(id, a, clock))

StoreUpdateStatus ==
    \E id \in Ids, s \in Statuses : Call(update_status(id, s, "system", "", clock))

GetQueue ==
    \E a \in QueueAssignees, s \in QueueStatuses, p \in QueuePriorities :
        Call(get_queue(View, a, s, p))

GetBreachedTickets == Call(get_breached_tickets(View, clock))

AutoPriority == \E d \in Descriptions : Call(auto_priority(d))

QueryNext ==
    \/ Tick
    \/ StoreCreate
    \/ StoreAssign
    \/ StoreUpdateStatus
    \/ GetQueue
    \/ GetBreachedTickets
    \/ GenerateReport

QuerySpec == Init /\ [][QueryNext]_vars

\* A store of two tickets with the dataclass defaults, assigned to names
\* that r["assignee"] or "unassigned" maps to the key of the unassigned, and
\* to an ordinary name, and read through generate_report.
ReportAssignees == {"", "unassigned", "agent1"}

ReportCreate ==
    \E id \in Ids : Call(create_ticket(id, 3, 72, clock, clock))

ReportAssign ==
    \E id \in Ids, a \in ReportAssignees : Call(assign_ticket(id, a, clock))

ReportNext ==
    \/ Tick
    \/ ReportCreate
    \/ ReportAssign
    \/ StoreUpdateStatus
    \/ GenerateReport

ReportSpec == Init /\ [][ReportNext]_vars

\* Texts classified by auto_priority beside a store that tickets are created in.
PriorityNext ==
    \/ Tick
    \/ StoreCreate
    \/ AutoPriority

PrioritySpec == Init /\ [][PriorityNext]_vars

\* ------------------------------------------ two connections on one database
\* Two TicketSystem objects on the same file, each call committing before it
\* returns, so that each reads the committed tables.  update_status reads the
\* ticket and checks the transition (lines 187-195) outside any transaction;
\* its writes (lines 196-209) form one transaction, which sqlite applies as a
\* whole.  assign_ticket and create_ticket are one transaction each.
RacePriorities == {3}

\* Lines 196-203 of update_status for the Ticket it read earlier.
StatusWrites(v, ticket, ticket_id, status, now) ==
    LET v1 == [v EXCEPT !.tickets[ticket_id] =
                  [@ EXCEPT !.status = status,
                            !.updated_at = IsoFormat(now),
                            !.resolved_at = ResolvedAtFor(status, now)]]
    IN  log_sla_event(v1, ticket_id, StatusEvent(status), now, ticket.sla_hours,
                      LoggedBreach(ticket, get_ticket(v1, ticket_id), now))

\* update_status(ticket_id, status) up to its check, on connection c: the
\* call returns False or raises, or goes on holding the Ticket it read.
RaceRead(c) ==
    /\ conns[c] = Idle
    /\ \E id \in Ids, s \in Statuses :
          LET ticket == get_ticket(View, id)
          IN  /\ conns' = [conns EXCEPT ![c] =
                    IF ticket # NoTicket /\ TransitionAllowed(ticket.status, s)
                    THEN [pc |-> "checked", ticket_id |-> id, status |-> s,
                          ticket |-> ticket]
                    ELSE Idle]
              /\ UNCHANGED <<tickets, comments, sla_history, db, clock>>

\* The rest of that update_status call: its writes and the commit.
RaceWrite(c) ==
    /\ conns[c] # Idle
    /\ LET k == conns[c]
           v == StatusWrites(View, k.ticket, k.ticket_id, k.status, clock)
       IN  /\ Bounded(Outcome(v, TRUE, "True", NoVal))
           /\ tickets' = v.tickets
           /\ comments' = v.comments
           /\ sla_history' = v.sla_history
           /\ db' = v
    /\ conns' = [conns EXCEPT ![c] = Idle]
    /\ UNCHANGED clock

RaceAssign(c) ==
    /\ conns[c] = Idle
    /\ \E id \in Ids, a \in Assignees : Call(assign_ticket(id, a, clock))

RaceCreate(c) ==
    /\ conns[c] = Idle
    /\ \E id \in TicketIds, p \in RacePriorities, t \in TicketTimings :
          Call(create_ticket(id, p, t[1], clock - t[2], clock))

RaceNext ==
    \/ Tick
    \/ \E c \in Conns : RaceRead(c)
    \/ \E c \in Conns : RaceWrite(c)
    \/ \E c \in Conns : RaceAssign(c)
    \/ \E c \in Conns : RaceCreate(c)

RaceSpec == Init /\ [][RaceNext]_vars

\* ======================================================================
\* Properties
\* ======================================================================
\* The transition table as section 4.2 of the specification gives it.
SpecAllowed(s) ==
    CASE s = "open"        -> {"in_progress", "on_hold", "cancelled"}
      [] s = "in_progress" -> {"review", "on_hold", "resolved"}
      [] s = "review"      -> {"resolved", "in_progress"}
      [] s = "on_hold"     -> {"open", "cancelled"}
      [] s = "resolved"    -> {"closed", "open"}
      [] s = "closed"      -> {}
      [] s = "cancelled"   -> {}

ListSet(list) == {list[i] : i \in 1..Len(list)}

\* update_status(id, s) with author and note defaulted succeeds exactly when
\* s is allowed from the current status.
SucceedsIffAllowed ==
    \A id \in Ids, s \in Statuses :
        Exists(tickets, id) =>
            (update_status(id, s, "system", "", clock).ret = "True"
                <=> s \in SpecAllowed(tickets[id].status))

\* assign_ticket changes a status only from open to in_progress.
AssignOnlyOpenToInProgress ==
    \A id \in Ids, a \in Assignees :
        LET o == assign_ticket(id, a, clock)
        IN  Exists(tickets, id) /\ o.view.tickets[id].status # tickets[id].status
                => /\ tickets[id].status = "open"
                   /\ o.view.tickets[id].status = "in_progress"

\* P holds of the outcome of every call of create_ticket, assign_ticket,
\* update_status, escalate and add_comment a caller can make in this state.
EveryCall(P(_)) ==
    /\ \A id \in TicketIds, p \in Priorities, t \in TicketTimings :
          P(create_ticket(id, p, t[1], clock - t[2], clock))
    /\ \A id \in Ids, a \in Assignees : P(assign_ticket(id, a, clock))
    /\ \A id \in Ids, s \in Statuses, an \in NoteArgs :
          P(update_status(id, s, an[1], an[2], clock))
    /\ \A id \in Ids, reason \in Reasons : P(escalate(id, reason, clock))
    /\ \A id \in Ids, a \in Authors, b \in Backdates :
          P(add_comment(View, Comment(id, a, "hello", FALSE, clock - b)))

\* The call that ends as o leaves each ticket's status or moves it along an edge.
AlongAnEdge(o) ==
    \A id \in Ids :
        Exists(tickets, id) =>
            /\ Exists(o.view.tickets, id)
            /\ \/ o.view.tickets[id].status = tickets[id].status
               \/ o.view.tickets[id].status \in SpecAllowed(tickets[id].status)

\* C1: every call of create_ticket, assign_ticket, update_status, escalate and
\* add_comment leaves a ticket's status or moves it along an edge of the
\* transition table; update_status(id, s) succeeds exactly when s is allowed
\* from the current status; assign_ticket only performs open -> in_progress.
C1_StatusFollowsTable ==
    /\ EveryCall(AlongAnEdge)
    /\ SucceedsIffAllowed
    /\ AssignOnlyOpenToInProgress

\* A ticket that was assigned, reviewed and resolved.
C1_Witness ==
    \E id \in Ids :
        /\ Exists(tickets, id)
        /\ tickets[id].status = "resolved"
        /\ tickets[id].assignee = "agent1"
        /\ \E i \in 1..Len(sla_history) : sla_history[i].event = "status→review"

\* C2: update_status on an existing ticket with a target outside the allowed
\* set raises the invalid-transition error naming the current status, the
\* requested status and the allowed set, and writes nothing: the tables (the
\* ticket row, the SLA history, the comments) and the committed database are
\* as before.
C2_InvalidTransitionRejected ==
    \A id \in Ids, s \in Statuses, an \in NoteArgs :
        Exists(tickets, id) /\ s \notin SpecAllowed(tickets[id].status) =>
            LET o == update_status(id, s, an[1], an[2], clock)
            IN  /\ o.ret = "ValueError"
                /\ o.val.kind = "Invalid transition"
                /\ o.val.current = tickets[id].status
                /\ o.val.requested = s
                /\ ListSet(o.val.allowed) = SpecAllowed(tickets[id].status)
                /\ o.view = View
                /\ DbAfter(o) = db

\* An open ticket with a comment, on which update_status(id, "resolved") raises.
C2_Witness ==
    \E id \in Ids :
        /\ Exists(tickets, id)
        /\ tickets[id].status = "open"
        /\ comments # <<>>
        /\ update_status(id, "resolved", "system", "", clock).ret = "ValueError"

\* C3: once a ticket is closed or cancelled, no step changes its status.
C3_TerminalStatusesStay ==
    [][\A id \in Ids :
          Exists(tickets, id) /\ tickets[id].status \in {"closed", "cancelled"}
              => /\ Exists(tickets', id)
                 /\ tickets'[id].status = tickets[id].status]_vars

\* A cancelled ticket that was escalated after it was cancelled.
C3_Witness ==
    \E id \in Ids :
        /\ Exists(tickets, id)
        /\ tickets[id].status = "cancelled"
        /\ Len(sla_history) >= 3
        /\ sla_history[Len(sla_history) - 1].event = "status→cancelled"
        /\ sla_history[Len(sla_history)].event = "escalated"

\* C4: assign_ticket(id, a) returns True exactly when the ticket exists with
\* status open, and then sets assignee = a and status = in_progress; otherwise
\* it returns False and leaves every row (assignee, status, updated_at) as it was.
C4_AssignOnlyWhenOpen ==
    \A id \in Ids, a \in Assignees :
        LET o == assign_ticket(id, a, clock)
        IN  IF Exists(tickets, id) /\ tickets[id].status = "open"
            THEN /\ o.ret = "True"
                 /\ o.view.tickets[id].assignee = a
                 /\ o.view.tickets[id].status = "in_progress"
            ELSE /\ o.ret = "False"
                 /\ o.view = View

\* A ticket assigned to agent1, on which a second assign (to agent2) fails.
C4_Witness ==
    \E id \in Ids :
        /\ Exists(tickets, id)
        /\ tickets[id].status = "in_progress"
        /\ tickets[id].assignee = "agent1"
        /\ assign_ticket(id, "agent2", clock).ret = "False"

\* C5: resolved_at is non-null exactly when the status is resolved or closed
\* (in the connection's view and in the committed database), and a successful
\* update_status to resolved or closed stamps it with the transition time.
C5_ResolvedAtIffResolved ==
    /\ \A tbl \in {tickets, db.tickets} : \A id \in Ids :
          Exists(tbl, id) =>
              (tbl[id].resolved_at # NULL
                  <=> tbl[id].status \in {"resolved", "closed"})
    /\ \A id \in Ids, s \in {"resolved", "closed"}, an \in NoteArgs :
          LET o == update_status(id, s, an[1], an[2], clock)
          IN  o.ret = "True" =>
                  o.view.tickets[id].resolved_at = IsoFormat(clock)

\* A ticket that was resolved and then reopened: resolved_at is absent again.
C5_Witness ==
    \E id \in Ids :
        /\ Exists(tickets, id)
        /\ tickets[id].status = "open"
        /\ tickets[id].resolved_at = NULL
        /\ \E i \in 1..Len(sla_history) : sla_history[i].event = "status→resolved"
        /\ sla_history[Len(sla_history)].event = "status→open"

\* The default SLA hours of a priority as section 4.2 gives them.
SpecDefaultSla(p) == CASE p = 1 -> 4 [] p = 2 -> 24 [] p = 3 -> 72 [] p = 4 -> 168

\* seq is old with exactly one row appended.
OneAppended(old, seq) ==
    Len(seq) = Len(old) + 1 /\ SubSeq(seq, 1, Len(old)) = old

\* C6: escalate on an existing ticket with priority p in 1..4, whatever its
\* status, returns True, sets priority to max(1, p-1) and sla_hours to the
\* default of the new priority, logs one SLA event 'escalated', adds one
\* internal system comment 'Escalated: {reason}' exactly when reason is
\* non-empty, and leaves status, assignee and resolved_at as they were.
C6_EscalateEffect ==
    \A id \in Ids, reason \in Reasons :
        Exists(tickets, id) /\ tickets[id].priority \in 1..4 =>
            LET o   == escalate(id, reason, clock)
                old == tickets[id]
                new == o.view.tickets[id]
                ev  == o.view.sla_history[Len(o.view.sla_history)]
                c   == o.view.comments[Len(o.view.comments)]
            IN  /\ o.ret = "True"
                /\ new.priority = (IF old.priority - 1 >= 1
                                   THEN old.priority - 1 ELSE 1)
                /\ new.sla_hours = SpecDefaultSla(new.priority)
                /\ OneAppended(sla_history, o.view.sla_history)
                /\ ev.event = "escalated" /\ ev.ticket_id = id
                /\ IF reason = ""
                   THEN o.view.comments = comments
                   ELSE /\ OneAppended(comments, o.view.comments)
                        /\ c.ticket_id = id
                        /\ c.author = "system"
                        /\ c.is_internal = 1
                        /\ c.body = "Escalated: " \o reason
                /\ new.status = old.status
                /\ new.assignee = old.assignee
                /\ new.resolved_at = old.resolved_at

\* A resolved ticket escalated from priority 3 to 2 with a reason.
C6_Witness ==
    \E id \in Ids :
        /\ Exists(tickets, id)
        /\ tickets[id].status = "resolved"
        /\ tickets[id].priority = 2
        /\ tickets[id].sla_hours = 24
        /\ sla_history[Len(sla_history)].event = "escalated"
        /\ comments # <<>>
        /\ comments[Len(comments)].body = "Escalated: why"

\* C7: every successful update_status(id, s) appends exactly one SLA event
\* 'status→s' for the ticket, with the ticket's sla_hours and with
\* was_breached the breach state of the ticket as read before the transition.
C7_EventCarriesPriorBreach ==
    \A id \in Ids, s \in Statuses, an \in NoteArgs :
        LET o  == update_status(id, s, an[1], an[2], clock)
            ev == o.view.sla_history[Len(o.view.sla_history)]
        IN  o.ret = "True" =>
                /\ OneAppended(sla_history, o.view.sla_history)
                /\ ev.ticket_id = id
                /\ ev.event = "status→" \o s
                /\ ev.sla_hours = tickets[id].sla_hours
                /\ ev.was_breached =
                      (IF is_breached(get_ticket(View, id), clock) THEN 1 ELSE 0)

\* A ticket resolved within its SLA and reopened after the deadline: the
\* reopening logged was_breached = 0 though the reopened ticket is breached.
C7_Witness ==
    \E id \in Ids :
        /\ Exists(tickets, id)
        /\ tickets[id].status = "open"
        /\ sla_history[Len(sla_history)] =
              SlaEvent(id, "status→open", clock, tickets[id].sla_hours, FALSE)
        /\ is_breached(get_ticket(View, id), clock)

\* C8: whenever the committed status, priority or sla_hours of a ticket
\* changes, the same commit adds an SLA event for that ticket.
C8_CommittedChangeHasEvent ==
    [][\A id \in Ids :
          /\ Exists(db.tickets, id)
          /\ Exists(db'.tickets, id)
          /\ \/ db'.tickets[id].status # db.tickets[id].status
             \/ db'.tickets[id].priority # db.tickets[id].priority
             \/ db'.tickets[id].sla_hours # db.tickets[id].sla_hours
          => \E i \in (Len(db.sla_history) + 1)..Len(db'.sla_history) :
                db'.sla_history[i].ticket_id = id]_vars

\* C9: every step leaves the committed database as it was (none of the
\* call's writes) or commits exactly the writes of that call (the
\* transaction held nothing before the call, and all it wrote is committed).
C9_AllOrNothing ==
    [][\/ db' = db
       \/ /\ View = db
          /\ db' = [tickets |-> tickets', comments |-> comments',
                    sla_history |-> sla_history']]_vars

\* C10: on a ticket id that does not exist, assign_ticket, escalate and
\* update_status return False and check_sla_breach raises the not-found
\* error; none of the four changes the tickets, the comments or the SLA history.
C10_UnknownTicketChangesNothing ==
    \A id \in Ids :
        ~Exists(tickets, id) =>
            /\ \A a \in Assignees :
                  LET o == assign_ticket(id, a, clock)
                  IN  o.ret = "False" /\ o.view = View
            /\ \A reason \in Reasons :
                  LET o == escalate(id, reason, clock)
                  IN  o.ret = "False" /\ o.view = View /\ DbAfter(o) = db
            /\ \A s \in Statuses, an \in NoteArgs :
                  LET o == update_status(id, s, an[1], an[2], clock)
                  IN  o.ret = "False" /\ o.view = View /\ DbAfter(o) = db
            /\ LET o == check_sla_breach(id, clock)
               IN  /\ o.ret = "ValueError"
                   /\ o.val = [kind |-> "not found", ticket_id |-> id]
                   /\ o.view = View /\ DbAfter(o) = db

\* A store holding a ticket, two SLA events and a comment, asked about an
\* id it does not hold.
C10_Witness ==
    /\ \E id \in Ids : Exists(tickets, id)
    /\ Len(sla_history) >= 2
    /\ comments # <<>>
    /\ \E id \in Ids :
          /\ ~Exists(tickets, id)
          /\ check_sla_breach(id, clock).ret = "ValueError"
          /\ escalate(id, "why", clock).ret = "False"

\* The ticket ids in a list of ids.
IdsOf(list) == {list[i] : i \in 1..Len(list)}

\* C11: get_queue(assignee, status, priority) returns exactly the tickets with
\* assignee equal to the given one when one is given (not None), status equal
\* to the given one when one is given, otherwise a status outside resolved,
\* closed, cancelled when no assignee is given, and priority equal to the
\* given one when one is given; each ticket once.
C11_QueueMatchesFilter ==
    \A a \in QueueAssignees, s \in QueueStatuses, p \in QueuePriorities :
        LET r == get_queue(View, a, s, p).val
            expected ==
              {id \in Ids :
                 /\ Exists(tickets, id)
                 /\ a # None => tickets[id].assignee = a
                 /\ IF s # None THEN tickets[id].status = s
                    ELSE a = None => tickets[id].status \notin
                                        {"resolved", "closed", "cancelled"}
                 /\ p # NoPriority => tickets[id].priority = p}
        IN  IdsOf(r) = expected /\ Len(r) = Cardinality(expected)

Verdict(id, now) ==
    LET r == check_sla_breach(id, now).val
    IN  <<r.is_breached, r.sla_deadline>>

\* C14 as stated: two check_sla_breach calls with no mutation of the store
\* between them report the same is_breached and the same sla_deadline,
\* however much time passes between them (the second call at any later time).
C14_VerdictNeverChanges ==
    \A id \in Ids, later \in clock..MaxClock :
        Exists(tickets, id) => Verdict(id, later) = Verdict(id, clock)

\* C14, amended: with no mutation of the store between the two calls the
\* sla_deadline is the same, and is_breached is the same unless the ticket
\* is open, in_progress, review or on_hold and its deadline passes between
\* the calls, in which case it goes from false to true.
C14_VerdictChangesOnlyAtDeadline ==
    \A id \in Ids, later \in clock..MaxClock :
        Exists(tickets, id) =>
            LET before   == check_sla_breach(id, clock).val
                after    == check_sla_breach(id, later).val
                deadline == FromIsoFormat(tickets[id].created_at)
                               + tickets[id].sla_hours
            IN  /\ after.sla_deadline = before.sla_deadline
                /\ after.is_breached # before.is_breached =>
                      /\ tickets[id].status \notin
                            {"resolved", "closed", "cancelled"}
                      /\ ~before.is_breached /\ after.is_breached
                      /\ clock <= deadline /\ deadline < later

\* A ticket resolved within its SLA whose deadline lies between now and a
\* later call: reported not breached now and then.
C14_Witness ==
    \E id \in Ids, later \in clock..MaxClock :
        /\ Exists(tickets, id)
        /\ tickets[id].status = "resolved"
        /\ later > FromIsoFormat(tickets[id].created_at) + tickets[id].sla_hours
        /\ clock <= FromIsoFormat(tickets[id].created_at) + tickets[id].sla_hours
        /\ ~check_sla_breach(id, clock).val.is_breached
        /\ ~check_sla_breach(id, later).val.is_breached

\* The keywords of section 4.4, by priority level.
SpecKeywords == PRIORITY_KEYWORDS

\* C15: auto_priority(description) returns the lowest priority level that has
\* a keyword occurring, case-insensitively, in the description, or 3 when no
\* level has one, with the default sla_hours of that priority; it changes no
\* stored state.  The six descriptions give 1, 2, 3, 4, 3 and 1.
C15_LowestMatchingPriority ==
    /\ \A d \in Descriptions :
          LET o == auto_priority(d)
              matched == {p \in 1..4 :
                            \E k \in 1..Len(SpecKeywords[p]) :
                                Occurs(SpecKeywords[p][k], Lower(d))}
          IN  /\ o.val.priority =
                    (IF matched = {} THEN 3
                     ELSE CHOOSE p \in matched : \A q \in matched : p <= q)
              /\ o.val.sla_hours = SpecDefaultSla(o.val.priority)
              /\ o.view = View /\ DbAfter(o) = db
    /\ auto_priority(<<"S", "e", "r", "v", "e", "r", " ", "i", "s", " ",
                       "D", "O", "W", "N">>).val.priority = 1
    /\ auto_priority(<<"s", "l", "o", "w", " ", "b", "u", "g", " ",
                       "e", "r", "r", "o", "r">>).val.priority = 2
    /\ auto_priority(<<"n", "o", "t", "h", "i", "n", "g", " ",
                       "h", "e", "r", "e">>).val.priority = 3
    /\ auto_priority(<<"N", "e", "w", " ", "F", "e", "a", "t", "u", "r",
                       "e">>).val.priority = 4
    /\ auto_priority(<<"d", "o", "w", " ", "n">>).val.priority = 3
    /\ auto_priority(<<"s", "l", "o", "w", "d", "o", "w", "n">>).val.priority = 1

\* A store holding a ticket, asked to classify a text in which level 3 has
\* two keywords and level 2 one: level 2 with 24 hours is returned.
C15_Witness ==
    /\ \E id \in Ids : Exists(tickets, id)
    /\ auto_priority(<<"s", "l", "o", "w", " ", "b", "u", "g", " ",
                       "e", "r", "r", "o", "r">>).val =
          [kind |-> "priority", priority |-> 2, sla_hours |-> 24]

\* The events 'status→*'.
SpecStatusEvents == {"status→" \o st : st \in Statuses}

\* C16: sla_breach_rate_pct is the share, in percent rounded to one decimal,
\* of was_breached-flagged events among the 'status→*' events within the
\* window, and 0 when there is none; no 'created' or 'escalated' event is
\* flagged; the rate lies between 0 and 100.
C16_BreachRateOverStatusEvents ==
    /\ \A i \in 1..Len(sla_history) :
          sla_history[i].was_breached = 1 =>
              sla_history[i].event \in SpecStatusEvents
    /\ \A days \in ReportDays :
          LET rate    == generate_report(View, days, clock).val.sla_breach_rate_pct
              since   == clock - 24 * days
              inKind  == {i \in 1..Len(sla_history) :
                            /\ sla_history[i].event \in SpecStatusEvents
                            /\ FromIsoFormat(sla_history[i].occurred_at) >= since}
              flagged == {i \in inKind : sla_history[i].was_breached = 1}
              \* ten times the exact percentage, times the number of events
              exact   == 1000 * Cardinality(flagged)
              n       == Cardinality(inKind)
          IN  /\ inKind = {} => rate = 0
              /\ inKind # {} => /\ 2 * (rate * n - exact) <= n
                                /\ 2 * (exact - rate * n) <= n
              /\ 0 <= rate /\ rate <= 1000

\* Two status events in the window, the later one flagged: 50.0 percent.
C16_Witness ==
    /\ Len(sla_history) = 3
    /\ sla_history[1].event = "created"
    /\ sla_history[2].was_breached = 0
    /\ sla_history[3].was_breached = 1
    /\ generate_report(View, 1, clock).val.sla_breach_rate_pct = 500

\* C17: generate_report(days) reports total_opened = the number of tickets
\* created within the window, total_resolved = the number of tickets whose
\* resolved_at falls within the window, and avg_resolution_hours non-null
\* exactly when total_resolved > 0; a ticket that is not resolved or closed
\* (one reopened, say) is not counted in total_resolved.
C17_ReportCounts ==
    \A days \in ReportDays :
        LET r     == generate_report(View, days, clock).val
            since == clock - 24 * days
            held  == {id \in Ids : Exists(tickets, id)}
        IN  /\ r.total_opened =
                  Cardinality({id \in held :
                                 FromIsoFormat(tickets[id].created_at) >= since})
            /\ r.total_resolved =
                  Cardinality({id \in held :
                                 /\ tickets[id].resolved_at # NULL
                                 /\ FromIsoFormat(tickets[id].resolved_at) >= since})
            /\ r.total_resolved =
                  Cardinality({id \in held :
                                 /\ tickets[id].status \in {"resolved", "closed"}
                                 /\ FromIsoFormat(tickets[id].resolved_at) >= since})
            /\ r.avg_resolution_hours # <<>> <=> r.total_resolved > 0

\* A ticket that was resolved and reopened: opened 1, resolved 0, no average.
C17_Witness ==
    \E id \in Ids :
        /\ Exists(tickets, id)
        /\ tickets[id].status = "open"
        /\ \E i \in 1..Len(sla_history) : sla_history[i].event = "status→resolved"
        /\ generate_report(View, 1, clock).val.total_opened = 1
        /\ generate_report(View, 1, clock).val.total_resolved = 0
        /\ generate_report(View, 1, clock).val.avg_resolution_hours = <<>>

\* C18: updated_at >= created_at for every ticket, in every state reached by
\* assign_ticket, update_status, escalate and add_comment from tickets
\* created with updated_at >= created_at.
C18_UpdatedNotBeforeCreated ==
    \A id \in Ids :
        Exists(tickets, id) =>
            FromIsoFormat(tickets[id].updated_at)
                >= FromIsoFormat(tickets[id].created_at)

IsPrefix(old, seq) ==
    Len(old) <= Len(seq) /\ SubSeq(seq, 1, Len(old)) = old

\* The call that ends as o keeps every SLA event there was, in the
\* connection's view and in the committed database.
HistoryKept(o) ==
    /\ IsPrefix(sla_history, o.view.sla_history)
    /\ IsPrefix(db.sla_history, DbAfter(o).sla_history)

\* C19: no call modifies or deletes an SLA event: the history before a call
\* is a prefix of the history after it.  A successful create_ticket adds
\* exactly one 'created' event for the new ticket; a call that fails with an
\* invalid transition, on an unknown ticket, or as an assign on a ticket
\* that is not open adds none.
C19_HistoryAppendOnly ==
    /\ EveryCall(HistoryKept)
    /\ \A id \in Ids : HistoryKept(check_sla_breach(id, clock))
    /\ \A days \in ReportDays : HistoryKept(generate_report(View, days, clock))
    /\ \A id \in TicketIds, p \in Priorities, t \in TicketTimings :
          LET o == create_ticket(id, p, t[1], clock - t[2], clock)
          IN  IF o.ret = "Ticket"
              THEN /\ OneAppended(sla_history, o.view.sla_history)
                   /\ o.view.sla_history[Len(o.view.sla_history)].event = "created"
                   /\ o.view.sla_history[Len(o.view.sla_history)].ticket_id = id
              ELSE o.view.sla_history = sla_history
    /\ \A id \in Ids, s \in Statuses, an \in NoteArgs :
          LET o == update_status(id, s, an[1], an[2], clock)
          IN  o.ret \in {"ValueError", "False"} =>
                  o.view.sla_history = sla_history
    /\ \A id \in Ids, a \in Assignees :
          LET o == assign_ticket(id, a, clock)
          IN  o.ret = "False" => o.view.sla_history = sla_history
    /\ \A id \in Ids, reason \in Reasons :
          LET o == escalate(id, reason, clock)
          IN  o.ret = "False" => o.view.sla_history = sla_history
    /\ \A id \in Ids :
          LET o == check_sla_breach(id, clock)
          IN  o.ret = "ValueError" => o.view.sla_history = sla_history

\* A closed ticket with its three events, on which update_status and
\* assign_ticket now fail.
C19_Witness ==
    \E id \in Ids :
        /\ Exists(tickets, id)
        /\ tickets[id].status = "closed"
        /\ Len(sla_history) = 3
        /\ sla_history[1].event = "created"
        /\ sla_history[3].event = "status→closed"
        /\ update_status(id, "open", "system", "", clock).ret = "ValueError"
        /\ assign_ticket(id, "agent1", clock).ret = "False"

\* C20: when status-changing calls issued through two connections race on a
\* ticket, the committed outcome is that of running them one after the
\* other: every committed change of a ticket's status goes along an edge of
\* the transition table from the status committed immediately before it.
C20_RacingTransitionsSerialized ==
    [][\A id \in Ids :
          /\ Exists(db.tickets, id)
          /\ Exists(db'.tickets, id)
          /\ db'.tickets[id].status # db.tickets[id].status
          => db'.tickets[id].status \in SpecAllowed(db.tickets[id].status)]_vars


\* The call that ends as o leaves each ticket a priority in 1..4 that is not
\* numerically larger than before, in the connection's view and in the
\* committed database.
PriorityKept(o) ==
    /\ \A id \in Ids :
          Exists(tickets, id) =>
              /\ Exists(o.view.tickets, id)
              /\ o.view.tickets[id].priority \in 1..4
              /\ o.view.tickets[id].priority <= tickets[id].priority
    /\ \A id \in Ids :
          Exists(db.tickets, id) =>
              /\ Exists(DbAfter(o).tickets, id)
              /\ DbAfter(o).tickets[id].priority \in 1..4
              /\ DbAfter(o).tickets[id].priority <= db.tickets[id].priority

\* C21: a ticket created with a priority in 1..4 keeps a priority in 1..4
\* in every reachable state; no call of assign_ticket, update_status,
\* escalate or add_comment makes the priority numerically larger; escalate
\* on a priority-1 ticket leaves priority 1.
C21_PriorityNeverLowered ==
    /\ \A id \in Ids :
          /\ Exists(tickets, id) => tickets[id].priority \in 1..4
          /\ Exists(db.tickets, id) => db.tickets[id].priority \in 1..4
    /\ EveryCall(PriorityKept)
    /\ \A id \in Ids, reason \in Reasons :
          Exists(tickets, id) /\ tickets[id].priority = 1 =>
              /\ escalate(id, reason, clock).ret = "True"
              /\ escalate(id, reason, clock).view.tickets[id].priority = 1

\* A ticket escalated twice, the second time at priority 1: both events
\* carry the four hours of priority 1.
C21_Witness ==
    \E id \in Ids :
        /\ Exists(tickets, id)
        /\ tickets[id].priority = 1
        /\ Len(sla_history) = 3
        /\ sla_history[2].event = "escalated" /\ sla_history[2].sla_hours = 4
        /\ sla_history[3].event = "escalated" /\ sla_history[3].sla_hours = 4
        /\ db.tickets = tickets


\* The statuses that can be reached from those of S along edges of the
\* transition table of section 4.2, S included.
RECURSIVE ReachFrom(_)
ReachFrom(S) ==
    LET N == S \cup UNION {SpecAllowed(s) : s \in S}
    IN  IF N = S THEN S ELSE ReachFrom(N)

\* The statuses a successful assign_ticket or update_status call can give
\* ticket id in this state.
CallSucc(id) ==
    {s2 \in Statuses :
        \/ \E s \in Statuses, an \in NoteArgs :
              LET o == update_status(id, s, an[1], an[2], clock)
              IN  o.ret = "True" /\ o.view.tickets[id].status = s2
        \/ \E a \in Assignees :
              LET o == assign_ticket(id, a, clock)
              IN  o.ret = "True" /\ o.view.tickets[id].status = s2}

\* C22: each of the seven statuses can be reached from open; in every
\* reachable state the successful assign_ticket and update_status calls on
\* a ticket lead exactly to the statuses the table allows from its status,
\* so that no status-changing call succeeds exactly when the ticket is
\* closed or cancelled; and from every other status the calls still lead
\* on to closed or cancelled.
C22_NoStuckStatus ==
    /\ ReachFrom({"open"}) = Statuses
    /\ \A id \in Ids :
          Exists(tickets, id) =>
              LET s == tickets[id].status
              IN  /\ s \in Statuses
                  /\ CallSucc(id) = SpecAllowed(s)
                  /\ CallSucc(id) = {} <=> s \in {"closed", "cancelled"}
                  /\ ReachFrom({s}) \cap {"closed", "cancelled"} # {}

\* A ticket that went open -> in_progress (assign_ticket) -> review ->
\* resolved (update_status), and that a call can now close or reopen.
C22_Witness ==
    \E id \in Ids :
        /\ Exists(tickets, id)
        /\ tickets[id].status = "resolved"
        /\ tickets[id].assignee \in Assignees
        /\ Len(sla_history) = 3
        /\ sla_history[2].event = "status→review"
        /\ sla_history[3].event = "status→resolved"
        /\ CallSucc(id) = {"closed", "open"}


\* The bucket of a ticket in open_by_assignee as section 4.6 gives it: a
\* ticket without an assignee, be it None or the empty string, is counted
\* under 'unassigned'.
SpecBucket(assignee) ==
    IF assignee \in {None, ""} THEN "unassigned" ELSE assignee

\* C23: in generate_report's result the counts of open_by_assignee add up to
\* currently_open, and each bucket holds the number of non-terminal tickets
\* of that assignee, tickets without an assignee counted under 'unassigned',
\* also after assign_ticket with an empty-string assignee or with the name
\* 'unassigned'.
C23_OpenByAssigneeAddsUp ==
    \A days \in ReportDays :
        LET r    == generate_report(View, days, clock).val
            open == {id \in Ids : /\ Exists(tickets, id)
                                  /\ tickets[id].status \notin
                                        {"resolved", "closed", "cancelled"}}
        IN  /\ r.currently_open = Cardinality(open)
            /\ SumOver(DOMAIN r.open_by_assignee, r.open_by_assignee)
                  = r.currently_open
            /\ DOMAIN r.open_by_assignee
                  = {SpecBucket(tickets[id].assignee) : id \in open}
            /\ \A k \in DOMAIN r.open_by_assignee :
                  r.open_by_assignee[k] =
                      Cardinality({id \in open :
                                     SpecBucket(tickets[id].assignee) = k})

=============================================================================
